---- MODULE Spec2Model ----
(***************************************************************************)
(* Model of the two sentence-embedding request handlers                    *)
(*   handler_dense/text_embedding_handler.py  TextEmbeddingModelHandler    *)
(*   handler_dense/xinyuan_handler.py         SparseEncodingModelHandler   *)
(* Text is a sequence of code points, a byte buffer a sequence of bytes.   *)
(* Every Python value is a record of one shape, so that values of          *)
(* different Python types can be compared and put into one sequence.       *)
(***************************************************************************)
EXTENDS Integers, Sequences, FiniteSets, TLC

\* ------------------------------------------------------------------ bounds
\* Longest request sequence handed to one call.
MaxRequests == 2
\* The encoder's embedding dimension (768 for the real model).
Dim == 2
\* Longest flat prediction sequence / group-size sequence handed to a
\* direct call of postprocess, and largest group size in it.
MaxDirect == 2

\* ------------------------------------------------------------ Python values
PyNone == [t |-> "NoneType", s |-> <<>>, n |-> 0, k |-> <<>>, l |-> <<>>]
PyStr(cs) == [t |-> "str", s |-> cs, n |-> 0, k |-> <<>>, l |-> <<>>]
PyBytes(bs) == [t |-> "bytearray", s |-> bs, n |-> 0, k |-> <<>>, l |-> <<>>]
PyInt(i) == [t |-> "int", s |-> <<>>, n |-> i, k |-> <<>>, l |-> <<>>]
\* a float keeps the text it was written as
PyFloat(cs) == [t |-> "float", s |-> cs, n |-> 0, k |-> <<>>, l |-> <<>>]
PyBool(b) == [t |-> "bool", s |-> <<>>, n |-> IF b THEN 1 ELSE 0, k |-> <<>>, l |-> <<>>]
PyList(vs) == [t |-> "list", s |-> <<>>, n |-> 0, k |-> <<>>, l |-> vs]
\* a dict: keys (texts) in insertion order, and the value of each
PyDict(ks, vs) == [t |-> "dict", s |-> <<>>, n |-> 0, k |-> ks, l |-> vs]

\* isinstance(v, bytearray), isinstance(v, list)
IsByteArray(v) == v.t = "bytearray"
IsList(v) == v.t = "list"
IsStr(v) == v.t = "str"

\* Op(v), with v evaluated once
With(v, Op(_)) == CHOOSE out \in {Op(x) : x \in {v}} : TRUE

\* ------------------------------------------------- bytearray.decode('utf-8')
DecodeError == [ok |-> FALSE, text |-> <<>>]

IsCont(bs, i) == i <= Len(bs) /\ bs[i] >= 128 /\ bs[i] <= 191

\* The length of the UTF-8 sequence that starts at bs[i], 0 when it is malformed.
Utf8SeqLen(bs, i) ==
    LET b == bs[i] IN
    IF b < 128 THEN 1
    ELSE IF b >= 194 /\ b <= 223 THEN (IF IsCont(bs, i + 1) THEN 2 ELSE 0)
    ELSE IF b >= 224 /\ b <= 239 THEN
        (IF /\ IsCont(bs, i + 1) /\ IsCont(bs, i + 2)
            /\ (b = 224 => bs[i + 1] >= 160)
            /\ (b = 237 => bs[i + 1] <= 159)
         THEN 3 ELSE 0)
    ELSE IF b >= 240 /\ b <= 244 THEN
        (IF /\ IsCont(bs, i + 1) /\ IsCont(bs, i + 2) /\ IsCont(bs, i + 3)
            /\ (b = 240 => bs[i + 1] >= 144)
            /\ (b = 244 => bs[i + 1] <= 143)
         THEN 4 ELSE 0)
    ELSE 0

Utf8CodePoint(bs, i, len) ==
    IF len = 1 THEN bs[i]
    ELSE IF len = 2 THEN (bs[i] - 192) * 64 + (bs[i + 1] - 128)
    ELSE IF len = 3 THEN (bs[i] - 224) * 4096 + (bs[i + 1] - 128) * 64 + (bs[i + 2] - 128)
    ELSE (bs[i] - 240) * 262144 + (bs[i + 1] - 128) * 4096
         + (bs[i + 2] - 128) * 64 + (bs[i + 3] - 128)

RECURSIVE Utf8From(_, _, _)
Utf8From(bs, i, acc) ==
    IF i > Len(bs) THEN [ok |-> TRUE, text |-> acc]
    ELSE With(Utf8SeqLen(bs, i), LAMBDA len :
            IF len = 0 THEN DecodeError
            ELSE With(<<i + len, Append(acc, Utf8CodePoint(bs, i, len))>>, LAMBDA n :
                    Utf8From(bs, n[1], n[2])))

\* strict decoding: the text, or a UnicodeDecodeError
Utf8Decode(bs) == Utf8From(bs, 1, <<>>)

\* ------------------------------------------------------------- json.loads
ParseFail == [ok |-> FALSE, v |-> PyNone, pos |-> 0]
ParseOk(v, p) == [ok |-> TRUE, v |-> v, pos |-> p]

IsWs(c) == c \in {32, 9, 10, 13}
IsDigit(c) == c >= 48 /\ c <= 57
At(cs, i) == IF i >= 1 /\ i <= Len(cs) THEN cs[i] ELSE 0 - 1

RECURSIVE SkipWs(_, _)
SkipWs(cs, i) == IF IsWs(At(cs, i)) THEN SkipWs(cs, i + 1) ELSE i

RECURSIVE SkipDigits(_, _)
SkipDigits(cs, i) == IF IsDigit(At(cs, i)) THEN SkipDigits(cs, i + 1) ELSE i

StartsWith(cs, i, lit) ==
    /\ i + Len(lit) - 1 <= Len(cs)
    /\ \A j \in 1..Len(lit) : cs[i + j - 1] = lit[j]

HexVal(c) ==
    IF IsDigit(c) THEN c - 48
    ELSE IF c >= 97 /\ c <= 102 THEN c - 87
    ELSE IF c >= 65 /\ c <= 70 THEN c - 55
    ELSE 0 - 1

\* the value of the four hex digits at cs[i..i+3], -1 when they are not four hex digits
Hex4(cs, i) ==
    IF \A j \in 0..3 : HexVal(At(cs, i + j)) >= 0
    THEN HexVal(cs[i]) * 4096 + HexVal(cs[i + 1]) * 256 + HexVal(cs[i + 2]) * 16 + HexVal(cs[i + 3])
    ELSE 0 - 1

\* the character a one-letter escape stands for, -1 for an invalid escape
EscapeChar(c) ==
    CASE c = 34 -> 34
      [] c = 92 -> 92
      [] c = 47 -> 47
      [] c = 98 -> 8
      [] c = 102 -> 12
      [] c = 110 -> 10
      [] c = 114 -> 13
      [] c = 116 -> 9
      [] OTHER -> 0 - 1

\* \uXXXX at cs[i]: the code unit, or the code point of a surrogate pair
ScanUnicodeEscape(cs, i, acc) ==
    With(<<Hex4(cs, i + 2),
           IF At(cs, i + 6) = 92 /\ At(cs, i + 7) = 117 THEN Hex4(cs, i + 8) ELSE 0 - 1>>,
         LAMBDA u :
            IF u[1] < 0 THEN <<0, acc>>
            ELSE IF u[1] >= 55296 /\ u[1] <= 56319 /\ u[2] >= 56320 /\ u[2] <= 57343
            THEN <<i + 12, Append(acc, 65536 + (u[1] - 55296) * 1024 + (u[2] - 56320))>>
            ELSE <<i + 6, Append(acc, u[1])>>)

\* The character or escape at cs[i] inside a string literal: <<next position,
\* the text so far>>, next position 0 when it is invalid.
ScanChar(cs, i, acc) ==
    With(At(cs, i), LAMBDA c :
        IF c < 32 THEN <<0, acc>>
        ELSE IF c # 92 THEN <<i + 1, Append(acc, c)>>
        ELSE IF At(cs, i + 1) = 117 THEN ScanUnicodeEscape(cs, i, acc)
        ELSE With(EscapeChar(At(cs, i + 1)), LAMBDA e :
                IF e < 0 THEN <<0, acc>> ELSE <<i + 2, Append(acc, e)>>))

\* the body of a string literal from cs[i] on (the opening quote is consumed)
RECURSIVE ScanString(_, _, _)
ScanString(cs, i, acc) ==
    IF At(cs, i) = 34 THEN ParseOk(PyStr(acc), i + 1)
    ELSE With(ScanChar(cs, i, acc), LAMBDA n :
            IF n[1] = 0 THEN ParseFail ELSE ScanString(cs, n[1], n[2]))

RECURSIVE DigitsValue(_, _, _, _)
DigitsValue(cs, i, j, acc) ==
    IF i >= j THEN acc ELSE DigitsValue(cs, i + 1, j, acc * 10 + (cs[i] - 48))

\* a number at cs[i]: -?(0|[1-9][0-9]*)(\.[0-9]+)?([eE][-+]?[0-9]+)?
ScanNumber(cs, i) ==
    With(IF At(cs, i) = 45 THEN i + 1 ELSE i, LAMBDA d0 :
    With(IF At(cs, d0) = 48 THEN d0 + 1 ELSE SkipDigits(cs, d0), LAMBDA d1 :
    With(IF At(cs, d1) = 46 /\ IsDigit(At(cs, d1 + 1)) THEN SkipDigits(cs, d1 + 1) ELSE d1,
         LAMBDA f1 :
    With(IF At(cs, f1) \in {101, 69}
         THEN (IF At(cs, f1 + 1) \in {43, 45} THEN f1 + 2 ELSE f1 + 1)
         ELSE 0, LAMBDA es :
    With(IF es > 0 /\ IsDigit(At(cs, es)) THEN SkipDigits(cs, es) ELSE f1, LAMBDA e1 :
        IF d1 = d0 THEN ParseFail
        ELSE IF e1 = d1
        THEN ParseOk(PyInt(IF d0 > i THEN 0 - DigitsValue(cs, d0, d1, 0)
                                     ELSE DigitsValue(cs, d0, d1, 0)), d1)
        ELSE ParseOk(PyFloat(SubSeq(cs, i, e1 - 1)), e1))))))

\* d[key] = v on a dict given as its keys and values
DictKeys(ks, vs, key) ==
    IF \E j \in 1..Len(ks) : ks[j] = key THEN ks ELSE Append(ks, key)
DictVals(ks, vs, key, v) ==
    IF \E j \in 1..Len(ks) : ks[j] = key
    THEN [j \in 1..Len(vs) |-> IF ks[j] = key THEN v ELSE vs[j]]
    ELSE Append(vs, v)

LitTrue == <<116, 114, 117, 101>>
LitFalse == <<102, 97, 108, 115, 101>>
LitNull == <<110, 117, 108, 108>>
LitNaN == <<78, 97, 78>>
LitInfinity == <<73, 110, 102, 105, 110, 105, 116, 121>>

RECURSIVE ScanOnce(_, _)
RECURSIVE ScanArray(_, _, _)
RECURSIVE ScanObject(_, _, _, _)
RECURSIVE ScanMember(_, _, _, _, _)

\* one JSON value starting exactly at cs[i]
ScanOnce(cs, i) ==
    With(At(cs, i), LAMBDA c :
        IF c = 34 THEN ScanString(cs, i + 1, <<>>)
        ELSE IF c = 91 THEN
            With(SkipWs(cs, i + 1), LAMBDA j :
                IF At(cs, j) = 93 THEN ParseOk(PyList(<<>>), j + 1)
                ELSE ScanArray(cs, j, <<>>))
        ELSE IF c = 123 THEN
            With(SkipWs(cs, i + 1), LAMBDA j :
                IF At(cs, j) = 125 THEN ParseOk(PyDict(<<>>, <<>>), j + 1)
                ELSE ScanObject(cs, j, <<>>, <<>>))
        ELSE IF StartsWith(cs, i, LitNull) THEN ParseOk(PyNone, i + 4)
        ELSE IF StartsWith(cs, i, LitTrue) THEN ParseOk(PyBool(TRUE), i + 4)
        ELSE IF StartsWith(cs, i, LitFalse) THEN ParseOk(PyBool(FALSE), i + 5)
        ELSE IF StartsWith(cs, i, LitNaN) THEN ParseOk(PyFloat(LitNaN), i + 3)
        ELSE IF StartsWith(cs, i, LitInfinity) THEN ParseOk(PyFloat(LitInfinity), i + 8)
        ELSE IF c = 45 /\ StartsWith(cs, i + 1, LitInfinity)
            THEN ParseOk(PyFloat(<<45>> \o LitInfinity), i + 9)
        ELSE ScanNumber(cs, i))

\* the elements of an array from cs[i] on, acc being those already read
ScanArray(cs, i, acc) ==
    With(ScanOnce(cs, i), LAMBDA r :
        IF ~r.ok THEN ParseFail
        ELSE With(<<SkipWs(cs, r.pos), Append(acc, r.v)>>, LAMBDA n :
                IF At(cs, n[1]) = 93 THEN ParseOk(PyList(n[2]), n[1] + 1)
                ELSE IF At(cs, n[1]) = 44
                THEN With(SkipWs(cs, n[1] + 1), LAMBDA j : ScanArray(cs, j, n[2]))
                ELSE ParseFail))

\* the value of the member whose key has been read, and the members after it
ScanMember(cs, i, ks, vs, key) ==
    With(ScanOnce(cs, i), LAMBDA r :
        IF ~r.ok THEN ParseFail
        ELSE With(<<SkipWs(cs, r.pos), DictKeys(ks, vs, key), DictVals(ks, vs, key, r.v)>>,
                  LAMBDA n :
                IF At(cs, n[1]) = 125 THEN ParseOk(PyDict(n[2], n[3]), n[1] + 1)
                ELSE IF At(cs, n[1]) = 44
                THEN With(SkipWs(cs, n[1] + 1), LAMBDA j : ScanObject(cs, j, n[2], n[3]))
                ELSE ParseFail))

\* the members of an object from cs[i] on
ScanObject(cs, i, ks, vs) ==
    IF At(cs, i) # 34 THEN ParseFail
    ELSE With(ScanString(cs, i + 1, <<>>), LAMBDA key :
            IF ~key.ok THEN ParseFail
            ELSE With(SkipWs(cs, key.pos), LAMBDA c :
                    IF At(cs, c) # 58 THEN ParseFail
                    ELSE With(SkipWs(cs, c + 1), LAMBDA j :
                            ScanMember(cs, j, ks, vs, key.v.s))))

\* json.loads(text): the value, or a JSONDecodeError (ok = FALSE)
JsonLoads(cs) ==
    With(SkipWs(cs, 1), LAMBDA i :
    With(ScanOnce(cs, i), LAMBDA r :
        IF ~r.ok THEN ParseFail
        ELSE IF SkipWs(cs, r.pos) # Len(cs) + 1 THEN ParseFail
        ELSE r))

\* ------------------------------------------------------------- json.dumps
RECURSIVE Digits(_)
Digits(i) == IF i < 10 THEN <<48 + i>> ELSE Append(Digits(i \div 10), 48 + (i % 10))

HexDigit(h) == IF h < 10 THEN 48 + h ELSE 87 + h
\* \uXXXX for a code unit
UEscape(u) ==
    <<92, 117, HexDigit(u \div 4096), HexDigit((u \div 256) % 16),
      HexDigit((u \div 16) % 16), HexDigit(u % 16)>>

\* one character of a string literal (ensure_ascii)
DumpChar(c) ==
    CASE c = 34 -> <<92, 34>>
      [] c = 92 -> <<92, 92>>
      [] c = 10 -> <<92, 110>>
      [] c = 13 -> <<92, 114>>
      [] c = 9 -> <<92, 116>>
      [] c = 8 -> <<92, 98>>
      [] c = 12 -> <<92, 102>>
      [] c >= 65536 -> UEscape(55296 + ((c - 65536) \div 1024)) \o UEscape(56320 + ((c - 65536) % 1024))
      [] c < 32 \/ c > 126 -> UEscape(c)
      [] OTHER -> <<c>>

RECURSIVE DumpChars(_, _)
DumpChars(cs, i) == IF i > Len(cs) THEN <<>> ELSE DumpChar(cs[i]) \o DumpChars(cs, i + 1)

DumpString(cs) == <<34>> \o DumpChars(cs, 1) \o <<34>>

RECURSIVE JsonDumps(_)
RECURSIVE DumpItems(_, _)
RECURSIVE DumpMembers(_, _, _)

\* the elements of a list from the i-th on, separated by ", "
DumpItems(vs, i) ==
    IF i > Len(vs) THEN <<>>
    ELSE (IF i > 1 THEN <<44, 32>> ELSE <<>>) \o JsonDumps(vs[i]) \o DumpItems(vs, i + 1)

\* the members of a dict from the i-th on: "key": value
DumpMembers(ks, vs, i) ==
    IF i > Len(ks) THEN <<>>
    ELSE (IF i > 1 THEN <<44, 32>> ELSE <<>>)
         \o DumpString(ks[i]) \o <<58, 32>> \o JsonDumps(vs[i]) \o DumpMembers(ks, vs, i + 1)

\* json.dumps(v) with the default separators
JsonDumps(v) ==
    CASE v.t = "str" -> DumpString(v.s)
      [] v.t = "int" -> (IF v.n < 0 THEN <<45>> \o Digits(0 - v.n) ELSE Digits(v.n))
      [] v.t = "float" -> v.s
      [] v.t = "bool" -> (IF v.n = 1 THEN LitTrue ELSE LitFalse)
      [] v.t = "NoneType" -> LitNull
      [] v.t = "list" -> <<91>> \o DumpItems(v.l, 1) \o <<93>>
      [] v.t = "dict" -> <<123>> \o DumpMembers(v.k, v.l, 1) \o <<125>>

\* --------------------------------------------------- tokenizer and encoder
\* max_length of the tokenizer call
MaxLength == 128

Min(a, b) == IF a < b THEN a ELSE b
Max(a, b) == IF a > b THEN a ELSE b

\* The token ids of one text: [CLS], one token per character, [SEP];
\* truncated to max_length tokens (add_special_tokens, truncation).
Tokens(cs) == <<101>> \o SubSeq(cs, 1, Min(Len(cs), MaxLength - 2)) \o <<102>>

RECURSIVE MaxLen(_, _)
MaxLen(rows, i) == IF i > Len(rows) THEN 0 ELSE Max(Len(rows[i]), MaxLen(rows, i + 1))

\* a row padded with v up to width n
Pad(row, n, v) == [j \in 1..n |-> IF j <= Len(row) THEN row[j] ELSE v]

\* self.tokenizer(inputSentence, padding=True, ...): every row padded to the
\* longest row of the batch, with the attention mask of each row. The tokenizer
\* takes texts; an item that is no text makes it raise (ok = FALSE).
Tokenizer(sentences) ==
    IF \E i \in 1..Len(sentences) : ~IsStr(sentences[i])
    THEN [ok |-> FALSE, input_ids |-> <<>>, attention_mask |-> <<>>]
    ELSE With([i \in 1..Len(sentences) |-> Tokens(sentences[i].s)], LAMBDA rows :
         With(MaxLen(rows, 1), LAMBDA width :
            [ok |-> TRUE,
             input_ids |-> [i \in 1..Len(rows) |-> Pad(rows[i], width, 0)],
             attention_mask |-> [i \in 1..Len(rows) |->
                                   Pad([j \in 1..Len(rows[i]) |-> 1], width, 0)]]))

RECURSIVE RowHash(_, _, _)
RowHash(ids, mask, j) ==
    IF j > Len(ids) THEN 0 ELSE (mask[j] * ids[j] * j + RowHash(ids, mask, j + 1)) % 997

\* The encoder on one row: a hidden state (a vector of Dim numbers) for every
\* position, a deterministic function of the tokens the mask lets through.
ModelForward(ids, mask) ==
    With(RowHash(ids, mask, 1), LAMBDA h :
        [p \in 1..Len(ids) |-> [d \in 1..Dim |-> (h * p + d * d) % 10]])

\* mutant: the slice taken from the start of the predictions
SliceNoOffset(xs, lo, hi) == SubSeq(xs, 1, Min(hi - lo, Len(xs)))

\* predictions[index:index + b]
Slice(xs, lo, hi) == SubSeq(xs, Min(lo, Len(xs)) + 1, Min(hi, Len(xs)))

\* the JSON value of a list of vectors (a number x is the float x.0)
FloatValue(x) == PyFloat(Digits(x) \o <<46, 48>>)
VectorValue(vec) == PyList([d \in 1..Len(vec) |-> FloatValue(vec[d])])
GroupValue(group) == PyList([i \in 1..Len(group) |-> VectorValue(group[i])])

\* ------------------------------------------------------------------ inputs
TextA == <<97>>
TextB == <<98>>
\* the JSON text ["a","b"], as characters and (being ASCII) as UTF-8 bytes
TextJsonAB == <<91, 34, 97, 34, 44, 34, 98, 34, 93>>

\* Request bodies as the serving host hands them over: a text, a list that the
\* host has already decoded, or a byte buffer.
Bodies ==
    { PyStr(TextA),                                      \* "a"
      PyStr(TextJsonAB),                                 \* the text ["a","b"]
      PyList(<<>>),                                      \* []
      PyList(<<PyStr(TextA), PyStr(TextB)>>),            \* ["a", "b"]
      PyList(<<PyStr(TextB), PyStr(TextA), PyStr(TextB)>>),
      PyBytes(TextJsonAB),                               \* b'["a","b"]'
      PyBytes(<<34, 97, 34>>),                           \* b'"a"'
      PyBytes(<<91, 32, 93>>),                           \* b'[ ]'
      PyBytes(<<91, 34, 97, 34, 44, 49, 93>>),           \* b'["a",1]'
      PyBytes(<<91, 34, 97, 34>>),                       \* b'["a"'
      PyBytes(<<34, 255, 34>>) }                         \* b'"\xff"'

\* the bodies of the calls whose responses are compared with each other
FewBodies ==
    { PyStr(TextA),
      PyList(<<PyStr(TextB), PyStr(TextA)>>),
      PyBytes(TextJsonAB),
      PyBytes(<<91, 34, 97, 34>>) }

SeqsUpTo(S, n) == UNION {[1..m -> S] : m \in 0..n}
Requests(B) == {[body |-> b] : b \in B}
RequestSeqs == SeqsUpTo(Requests(Bodies), MaxRequests)
FewRequestSeqs == SeqsUpTo(Requests(FewBodies), MaxRequests)

\* vectors, flat predictions and group sizes for a direct call of postprocess
\* or postResult
Vectors == {[d \in 1..Dim |-> d], [d \in 1..Dim |-> 7]}
Groups == SeqsUpTo(Vectors, MaxDirect)
GroupSizeSeqs == SeqsUpTo(0..MaxDirect, MaxDirect)
\* result lists for postResult: their groups start with the same vector (a
\* record is built from its group alone, whichever vectors it holds)
ResultGroups == {g \in Groups : Len(g) = 0 \/ g[1] = [d \in 1..Dim |-> d]}
ResultLists == SeqsUpTo(ResultGroups, MaxDirect)

\* -------------------------------------------------------------------- state
VARIABLES
    handler,        \* the class of the handler object
    manifest, device, model, tokenizer, all_tokens, initialized,  \* self.*
    pc,             \* where the current call is
    call,           \* the method the host called
    requests,       \* the argument of handle
    pos,            \* how many elements the running for loop has consumed
    inputSentence, batch_idx, input_data,   \* locals of preprocess
    pred, index, outputs,                   \* locals of inference and postprocess
    result_list, records,                   \* argument and local of postResult
    ret,            \* the value returned to the host
    exc,            \* the exception that ended the call
    observed        \* history: a finished call of handle and its outcome

self == <<handler, manifest, device, model, tokenizer, all_tokens, initialized>>
frame == <<call, requests, pos, inputSentence, batch_idx, input_data, pred, index,
           outputs, result_list, records, ret, exc>>
vars == <<self, pc, frame, observed>>

ModelId == "sentence-transformers/msmarco-distilbert-base-tas-b"
Handlers == {"TextEmbeddingModelHandler", "SparseEncodingModelHandler"}
GpuIds == {0}

NoInput == [ok |-> FALSE, input_ids |-> <<>>, attention_mask |-> <<>>]
NoRet == [kind |-> "none", groups |-> <<>>, records |-> <<>>]
NoObservation == [set |-> FALSE, requests |-> <<>>, pc |-> "idle", ret |-> NoRet]

\* __init__
Init ==
    /\ handler \in Handlers
    /\ manifest = "None" /\ device = "None" /\ model = "None"
    /\ tokenizer = "None" /\ all_tokens = "None" /\ initialized = FALSE
    /\ pc = "idle"
    /\ call = "none" /\ requests = <<>> /\ pos = 0
    /\ inputSentence = <<>> /\ batch_idx = <<>> /\ input_data = NoInput
    /\ pred = <<>> /\ index = 0 /\ outputs = <<>>
    /\ result_list = <<>> /\ records = <<>>
    /\ ret = NoRet /\ exc = "none"
    /\ observed = NoObservation

\* The host loads the handler once, before it serves a call.
Initialize(cuda, gpu_id) ==
    /\ pc = "idle" /\ tokenizer = "None"
    /\ manifest' = "manifest"
    /\ device' = IF cuda THEN <<"cuda", gpu_id>> ELSE <<"cpu">>
    /\ model' = ModelId
    /\ tokenizer' = ModelId
    /\ initialized' = IF handler = "TextEmbeddingModelHandler" THEN TRUE ELSE initialized
    /\ UNCHANGED <<handler, all_tokens, pc, frame, observed>>

Ready == pc = "idle" /\ tokenizer # "None"

\* handle(data, context) entered: preprocess starts with its two empty lists
HandleCall(reqs) ==
    /\ Ready
    /\ call' = "handle" /\ requests' = reqs
    /\ pc' = "preprocess" /\ pos' = 0
    /\ inputSentence' = <<>> /\ batch_idx' = <<>>
    /\ UNCHANGED <<self, input_data, pred, index, outputs, result_list, records,
                   ret, exc, observed>>

\* mutant: the bytes decoded to text, the text not parsed
DecodeBodyNoParse(body) ==
    IF IsByteArray(body)
    THEN With(Utf8Decode(body.s), LAMBDA d :
            IF ~d.ok THEN [ok |-> FALSE, v |-> PyNone, exc |-> "UnicodeDecodeError"]
            ELSE [ok |-> TRUE, v |-> PyStr(d.text), exc |-> "none"])
    ELSE [ok |-> TRUE, v |-> body, exc |-> "none"]

\* request_body after the bytearray branch: decoded and parsed, or an exception
DecodeBody(body) ==
    IF IsByteArray(body)
    THEN With(Utf8Decode(body.s), LAMBDA d :
            IF ~d.ok THEN [ok |-> FALSE, v |-> PyNone, exc |-> "UnicodeDecodeError"]
            ELSE With(JsonLoads(d.text), LAMBDA j :
                    IF ~j.ok THEN [ok |-> FALSE, v |-> PyNone, exc |-> "JSONDecodeError"]
                    ELSE [ok |-> TRUE, v |-> j.v, exc |-> "none"]))
    ELSE [ok |-> TRUE, v |-> body, exc |-> "none"]

\* mutants of the two definitions below: every body counted as one item; an
\* empty list taken for a single item
BodyGroupSizeOne(v) == 1
BodyItemsTruthy(v) == IF IsList(v) /\ Len(v.l) > 0 THEN v.l ELSE <<v>>

\* what one decoded body adds to inputSentence and to batch_idx
BodyItems(v) == IF IsList(v) THEN v.l ELSE <<v>>
BodyGroupSize(v) == IF IsList(v) THEN Len(v.l) ELSE 1

\* mutant: the items of a body put in front of the list
AddItemsFront(sentences, items) == items \o sentences

\* inputSentence after the items of one body
AddItems(sentences, items) == sentences \o items

\* one iteration of the loop over the requests
PreprocessStep ==
    /\ pc = "preprocess" /\ pos < Len(requests)
    /\ \E dec \in {DecodeBody(requests[pos + 1].body)} :
       IF dec.ok
       THEN /\ inputSentence' = AddItems(inputSentence, BodyItems(dec.v))
            /\ batch_idx' = Append(batch_idx, BodyGroupSize(dec.v))
            /\ pos' = pos + 1
            /\ UNCHANGED <<pc, exc>>
       ELSE /\ pc' = "error" /\ exc' = dec.exc
            /\ UNCHANGED <<inputSentence, batch_idx, pos>>
    /\ UNCHANGED <<self, call, requests, input_data, pred, index, outputs,
                   result_list, records, ret, observed>>

\* the loop is over: the flat list goes to the tokenizer
PreprocessTokenize ==
    /\ pc = "preprocess" /\ pos = Len(requests)
    /\ \E tok \in {Tokenizer(inputSentence)} :
       IF tok.ok
       THEN input_data' = tok /\ pc' = "inference" /\ UNCHANGED exc
       ELSE pc' = "error" /\ exc' = "TokenizerError" /\ UNCHANGED input_data
    /\ UNCHANGED <<self, call, requests, pos, inputSentence, batch_idx, pred, index,
                   outputs, result_list, records, ret, observed>>

\* predictions.last_hidden_state[:, 0]
Predictions(data) ==
    [i \in 1..Len(data.input_ids) |->
        ModelForward(data.input_ids[i], data.attention_mask[i])[1]]

\* mutant: the model replaced by its half-precision copy on every call
InferenceHalvesModel ==
    /\ pc = "inference"
    /\ pred' = Predictions(input_data)
    /\ model' = "half"
    /\ pc' = "postprocess" /\ outputs' = <<>> /\ index' = 0 /\ pos' = 0
    /\ UNCHANGED <<handler, manifest, device, tokenizer, all_tokens, initialized,
                   call, requests, inputSentence, batch_idx, input_data,
                   result_list, records, ret, exc, observed>>

\* inference, and postprocess entered with its empty outputs and index 0
Inference ==
    /\ pc = "inference"
    /\ pred' = Predictions(input_data)
    /\ pc' = "postprocess" /\ outputs' = <<>> /\ index' = 0 /\ pos' = 0
    /\ UNCHANGED <<self, call, requests, inputSentence, batch_idx, input_data,
                   result_list, records, ret, exc, observed>>

\* postprocess(prediction) called on its own
PostprocessCall(predictions, batch_l) ==
    /\ Ready
    /\ call' = "postprocess"
    /\ pred' = predictions /\ batch_idx' = batch_l
    /\ pc' = "postprocess" /\ outputs' = <<>> /\ index' = 0 /\ pos' = 0
    /\ UNCHANGED <<self, requests, inputSentence, input_data, result_list, records,
                   ret, exc, observed>>

\* mutant: index = b
NextIndexAssign(i, b) == b

\* index after a group of b vectors
NextIndex(i, b) == i + b

\* one iteration of the loop over batch_idx
PostprocessStep ==
    /\ pc = "postprocess" /\ pos < Len(batch_idx)
    /\ LET b == batch_idx[pos + 1] IN
       /\ outputs' = Append(outputs, Slice(pred, index, index + b))
       /\ index' = NextIndex(index, b)
    /\ pos' = pos + 1
    /\ UNCHANGED <<self, pc, call, requests, inputSentence, batch_idx, input_data,
                   pred, result_list, records, ret, exc, observed>>

\* the value handle returns, given the groups postprocess has built
HandleResult(groups) == [kind |-> "groups", groups |-> groups, records |-> <<>>]

PostprocessReturn ==
    /\ pc = "postprocess" /\ pos = Len(batch_idx)
    /\ ret' = HandleResult(outputs)
    /\ pc' = "done"
    /\ UNCHANGED <<self, call, requests, pos, inputSentence, batch_idx, input_data,
                   pred, index, outputs, result_list, records, exc, observed>>

KeyName == <<110, 97, 109, 101>>
KeyDataType == <<100, 97, 116, 97, 95, 116, 121, 112, 101>>
KeyShape == <<115, 104, 97, 112, 101>>
KeyData == <<100, 97, 116, 97>>
SentenceEmbedding ==
    <<115, 101, 110, 116, 101, 110, 99, 101, 95, 101, 109, 98, 101, 100, 100, 105, 110, 103>>
Float32 == <<70, 76, 79, 65, 84, 51, 50>>

\* the dict postResult serializes for one element of result_list
Record(result) ==
    PyDict(<<KeyName, KeyDataType, KeyShape, KeyData>>,
           <<PyStr(SentenceEmbedding), PyStr(Float32), PyInt(Len(result)),
             GroupValue(result)>>)

\* postResult(result_list), which only SparseEncodingModelHandler has
PostResultCall(results) ==
    /\ Ready /\ handler = "SparseEncodingModelHandler"
    /\ call' = "postResult"
    /\ result_list' = results
    /\ pc' = "postResult" /\ records' = <<>> /\ pos' = 0
    /\ UNCHANGED <<self, requests, inputSentence, batch_idx, input_data, pred, index,
                   outputs, ret, exc, observed>>

PostResultStep ==
    /\ pc = "postResult" /\ pos < Len(result_list)
    /\ records' = Append(records, JsonDumps(Record(result_list[pos + 1])))
    /\ pos' = pos + 1
    /\ UNCHANGED <<self, pc, call, requests, inputSentence, batch_idx, input_data,
                   pred, index, outputs, result_list, ret, exc, observed>>

PostResultReturn ==
    /\ pc = "postResult" /\ pos = Len(result_list)
    /\ ret' = [kind |-> "records", groups |-> <<>>, records |-> records]
    /\ pc' = "done"
    /\ UNCHANGED <<self, call, requests, pos, inputSentence, batch_idx, input_data,
                   pred, index, outputs, result_list, records, exc, observed>>

\* The call is over (it returned or raised): its frame is gone, the host may
\* call again.
Return ==
    /\ pc \in {"done", "error"}
    /\ pc' = "idle"
    /\ call' = "none" /\ requests' = <<>> /\ pos' = 0
    /\ inputSentence' = <<>> /\ batch_idx' = <<>> /\ input_data' = NoInput
    /\ pred' = <<>> /\ index' = 0 /\ outputs' = <<>>
    /\ result_list' = <<>> /\ records' = <<>>
    /\ ret' = NoRet /\ exc' = "none"
    /\ UNCHANGED <<self, observed>>

\* The host keeps the outcome of a finished call of handle.
Observe ==
    /\ pc \in {"done", "error"} /\ call = "handle"
    /\ observed' = [set |-> TRUE, requests |-> requests, pc |-> pc, ret |-> ret]
    /\ UNCHANGED <<self, pc, frame>>

DoInitialize == \E cuda \in BOOLEAN, gpu_id \in GpuIds : Initialize(cuda, gpu_id)
DoHandle == \E reqs \in RequestSeqs : HandleCall(reqs)
DoPostprocess == \E p \in Groups, b \in GroupSizeSeqs : PostprocessCall(p, b)
DoPostResult == \E r \in ResultLists : PostResultCall(r)
DoHandleFew == \E reqs \in FewRequestSeqs : HandleCall(reqs)

Next ==
    \/ DoInitialize
    \/ DoHandle
    \/ PreprocessStep
    \/ PreprocessTokenize
    \/ Inference
    \/ DoPostprocess
    \/ PostprocessStep
    \/ PostprocessReturn
    \/ DoPostResult
    \/ PostResultStep
    \/ PostResultReturn
    \/ Return

Spec == Init /\ [][Next]_vars

\* calls of handle on a few request sequences, with the outcome of an earlier
\* call kept for comparison
NextCalls ==
    \/ DoInitialize
    \/ DoHandleFew
    \/ PreprocessStep
    \/ PreprocessTokenize
    \/ Inference
    \/ PostprocessStep
    \/ PostprocessReturn
    \/ Observe
    \/ Return

SpecCalls == Init /\ [][NextCalls]_vars

\* ------------------------------------------------------------------ claims
RECURSIVE SumTo(_, _)
\* the sum of the first n entries of a sequence of numbers
SumTo(xs, n) == IF n = 0 THEN 0 ELSE xs[n] + SumTo(xs, n - 1)
Sum(xs) == SumTo(xs, Len(xs))

RECURSIVE Concat(_, _)
\* the concatenation of the first n sequences of a sequence of sequences
Concat(xss, n) == IF n = 0 THEN <<>> ELSE Concat(xss, n - 1) \o xss[n]

\* the decoded body of the i-th request of the call, and the items it stands for
Decoded(i) == DecodeBody(requests[i].body).v
ItemsOf(i) == IF Decoded(i).t = "list" THEN Decoded(i).l ELSE <<Decoded(i)>>
RECURSIVE ItemsBefore(_)
ItemsBefore(i) == IF i <= 1 THEN 0 ELSE ItemsBefore(i - 1) + Len(ItemsOf(i - 1))

\* the embedding of one text, encoded on its own
EmbeddingOf(item) == Predictions(Tokenizer(<<item>>))[1]

\* the requests the flattening loop has gone through
Flattened ==
    IF call # "handle" THEN 0
    ELSE IF pc \in {"preprocess", "error"} THEN Len(batch_idx)
    ELSE Len(requests)

InHandle == call = "handle" /\ pc # "idle"

\* C1: in every state of a call of handle, batch_idx has one entry for each
\* request the flattening loop has gone through (all of them once the loop is
\* over), entry i is the number of items request i contributed, and the entries
\* sum to the length of the flat sentence list, which is the number of rows the
\* tokenizer is given.
C1_GroupSizesSumToFlatLength ==
    InHandle =>
        /\ pc \in {"preprocess", "error"} => Len(batch_idx) = pos
        /\ pc \in {"inference", "postprocess", "done"} =>
              /\ Len(batch_idx) = Len(requests)
              /\ Len(input_data.input_ids) = Sum(batch_idx)
        /\ \A i \in 1..Len(batch_idx) : batch_idx[i] = Len(ItemsOf(i))
        /\ Sum(batch_idx) = Len(inputSentence)

C1_Witness ==
    /\ InHandle /\ pc = "inference"
    /\ Len(requests) = 2
    /\ batch_idx[1] = 0 /\ batch_idx[2] = 3
    /\ Len(inputSentence) = 3

\* C2: a call of handle that returns, returns one group for each request, in
\* request order; group i has as many vectors as request i contributed items,
\* and its k-th vector is the embedding of the k-th item of request i.
C2_RegroupInvertsFlatten ==
    (InHandle /\ pc = "done") =>
        /\ ret.kind = "groups"
        /\ Len(ret.groups) = Len(requests)
        /\ \A i \in 1..Len(requests) :
              /\ Len(ret.groups[i]) = Len(ItemsOf(i))
              /\ \A k \in 1..Len(ItemsOf(i)) :
                    ret.groups[i][k] = EmbeddingOf(ItemsOf(i)[k])

C2_Witness ==
    /\ InHandle /\ pc = "done"
    /\ Len(requests) = 2
    /\ Len(ret.groups[1]) = 3 /\ Len(ret.groups[2]) = 1
    /\ ret.groups[1][1] # ret.groups[1][2]
    /\ ret.groups[1][2] = ret.groups[2][1]

InPostprocess == call \in {"handle", "postprocess"} /\ pc \in {"postprocess", "done"}

\* C3: in postprocess, when the group sizes sum to the number of vectors, every
\* group built so far is the contiguous slice of the flat sequence that starts
\* at the sum of the group sizes before it and has its group size as length;
\* index is the sum of the group sizes gone through; and when the loop has
\* ended there are M groups, index is N, and the groups side by side are the
\* flat sequence.
C3_GroupsAreContiguousSlices ==
    (InPostprocess /\ Sum(batch_idx) = Len(pred)) =>
        /\ Len(outputs) = pos
        /\ index = SumTo(batch_idx, pos)
        /\ \A i \in 1..Len(outputs) :
              /\ Len(outputs[i]) = batch_idx[i]
              /\ \A k \in 1..batch_idx[i] :
                    outputs[i][k] = pred[SumTo(batch_idx, i - 1) + k]
        /\ pc = "done" =>
              /\ Len(outputs) = Len(batch_idx)
              /\ index = Len(pred)
              /\ Concat(outputs, Len(outputs)) = pred
              /\ ret.groups = outputs

C3_Witness ==
    /\ call = "postprocess" /\ pc = "done"
    /\ batch_idx = <<0, 2>>
    /\ Len(pred) = 2 /\ pred[1] # pred[2]

\* C4: the flat sentence list is the items of the requests gone through, in
\* request order and inside a list body in list order: a list contributes its
\* elements and its length as group size, any other body itself and group
\* size 1.
C4_FlatListIsConcatenation ==
    InHandle =>
        /\ Len(inputSentence) = ItemsBefore(Flattened + 1)
        /\ \A i \in 1..Flattened :
              /\ \A k \in 1..Len(ItemsOf(i)) :
                    inputSentence[ItemsBefore(i) + k] = ItemsOf(i)[k]
              /\ IsList(Decoded(i)) =>
                    ItemsOf(i) = Decoded(i).l /\ batch_idx[i] = Len(Decoded(i).l)
              /\ ~IsList(Decoded(i)) =>
                    ItemsOf(i) = <<Decoded(i)>> /\ batch_idx[i] = 1

C4_Witness ==
    /\ InHandle /\ pc = "inference"
    /\ requests = <<[body |-> PyStr(TextA)],
                    [body |-> PyList(<<PyStr(TextB), PyStr(TextA), PyStr(TextB)>>)]>>
    /\ inputSentence = <<PyStr(TextA), PyStr(TextB), PyStr(TextA), PyStr(TextB)>>
    /\ batch_idx = <<1, 3>>

\* a body that is, or decodes to, the empty list
IsEmptyList(i) == DecodeBody(requests[i].body).ok /\ Decoded(i) = PyList(<<>>)
\* a body that is, or decodes to, a text or a list of texts
IsTextBody(i) ==
    /\ DecodeBody(requests[i].body).ok
    /\ \A k \in 1..Len(ItemsOf(i)) : IsStr(ItemsOf(i)[k])

Utf8Bytes(c) ==
    IF c < 128 THEN <<c>>
    ELSE IF c < 2048 THEN <<192 + (c \div 64), 128 + (c % 64)>>
    ELSE IF c < 65536 THEN <<224 + (c \div 4096), 128 + ((c \div 64) % 64), 128 + (c % 64)>>
    ELSE <<240 + (c \div 262144), 128 + ((c \div 4096) % 64),
           128 + ((c \div 64) % 64), 128 + (c % 64)>>
RECURSIVE Utf8Encode(_, _)
Utf8Encode(cs, i) == IF i > Len(cs) THEN <<>> ELSE Utf8Bytes(cs[i]) \o Utf8Encode(cs, i + 1)

\* a text, or a list of texts
IsTextOrTexts(v) ==
    \/ IsStr(v)
    \/ IsList(v) /\ \A k \in 1..Len(v.l) : IsStr(v.l[k])

\* the items the i-th request of the call has put into inputSentence
Contribution(i) == SubSeq(inputSentence, ItemsBefore(i) + 1, ItemsBefore(i + 1))

\* the j-th request carries, as a byte buffer, the UTF-8 bytes of a JSON text
\* of the value v
IsBytesOfJsonOf(j, v) ==
    /\ IsByteArray(requests[j].body)
    /\ Utf8Decode(requests[j].body.s).ok
    /\ JsonLoads(Utf8Decode(requests[j].body.s).text).ok
    /\ JsonLoads(Utf8Decode(requests[j].body.s).text).v = v

\* C6 as claimed: a body that is a text holding the JSON of a string or of an
\* array of strings, and a byte buffer holding the UTF-8 bytes of that text,
\* add the same items and the same group size.
C6_TextJsonFlattenedLikeBytes ==
    InHandle =>
        \A i, j \in 1..Flattened :
            ( /\ IsStr(requests[i].body)
              /\ JsonLoads(requests[i].body.s).ok
              /\ IsTextOrTexts(JsonLoads(requests[i].body.s).v)
              /\ requests[j].body = PyBytes(Utf8Encode(requests[i].body.s, 1)) )
            => /\ Contribution(i) = Contribution(j)
               /\ batch_idx[i] = batch_idx[j]

\* C6 as amended: a byte buffer holding the UTF-8 bytes of a JSON text of a
\* string or of an array of strings adds the items and the group size that the
\* value itself adds when the host hands it over already decoded: the elements
\* and the length of the array, the string and 1. A body that is a text is
\* not parsed: it adds itself as one item, with group size 1.
C6_BytesFlattenedLikeDecodedValue ==
    InHandle =>
        /\ \A i, j \in 1..Flattened :
              (IsTextOrTexts(requests[i].body) /\ IsBytesOfJsonOf(j, requests[i].body))
              => /\ Contribution(i) = Contribution(j)
                 /\ batch_idx[i] = batch_idx[j]
        /\ \A j \in 1..Flattened :
              (\E v \in {PyStr(TextA), PyList(<<PyStr(TextA), PyStr(TextB)>>), PyList(<<>>)} :
                  IsBytesOfJsonOf(j, v))
              => /\ Contribution(j) = ItemsOf(j)
                 /\ Contribution(j) =
                       (IF IsBytesOfJsonOf(j, PyStr(TextA)) THEN <<PyStr(TextA)>>
                        ELSE IF IsBytesOfJsonOf(j, PyList(<<>>)) THEN <<>>
                        ELSE <<PyStr(TextA), PyStr(TextB)>>)
                 /\ batch_idx[j] = Len(Contribution(j))
        /\ \A i \in 1..Flattened :
              IsStr(requests[i].body)
              => Contribution(i) = <<requests[i].body>> /\ batch_idx[i] = 1

C6_Witness ==
    /\ InHandle /\ pc = "inference"
    /\ requests = <<[body |-> PyBytes(TextJsonAB)], [body |-> PyStr(TextJsonAB)]>>
    /\ inputSentence = <<PyStr(TextA), PyStr(TextB), PyStr(TextJsonAB)>>
    /\ batch_idx = <<2, 1>>

\* the body of the i-th request fails decoding: a byte buffer that is no
\* UTF-8, or no JSON, or an array with an element that is no string
FailsDecoding(i) ==
    /\ IsByteArray(requests[i].body)
    /\ \/ ~Utf8Decode(requests[i].body.s).ok
       \/ ~JsonLoads(Utf8Decode(requests[i].body.s).text).ok
       \/ LET v == JsonLoads(Utf8Decode(requests[i].body.s).text).v IN
          IsList(v) /\ \E k \in 1..Len(v.l) : ~IsStr(v.l[k])

\* C7 as claimed: a body that fails decoding is never counted in the group
\* sizes nor put into the flat sentence list (the flattening loop ends in an
\* error at that request), and the call returns no response groups.
C7_DecodingFailureIsInputError ==
    InHandle =>
        \A i \in 1..Len(requests) :
            FailsDecoding(i) =>
                /\ Len(batch_idx) < i
                /\ Len(inputSentence) <= ItemsBefore(i)
                /\ pc \notin {"inference", "postprocess", "done"}
                /\ pc = "error" => exc \in {"UnicodeDecodeError", "JSONDecodeError"}

\* the member of a parsed JSON object with the given key (PyNone when absent)
Member(obj, key) ==
    IF \E m \in 1..Len(obj.k) : obj.k[m] = key
    THEN obj.l[CHOOSE m \in 1..Len(obj.k) : obj.k[m] = key]
    ELSE PyNone

\* text is the JSON of a record for the group: name, data_type and the group's
\* vectors as data
IsRecordOf(text, group) ==
    /\ JsonLoads(text).ok
    /\ JsonLoads(text).v.t = "dict"
    /\ Member(JsonLoads(text).v, KeyName) = PyStr(SentenceEmbedding)
    /\ Member(JsonLoads(text).v, KeyDataType) = PyStr(Float32)
    /\ Member(JsonLoads(text).v, KeyShape).t = "int"
    /\ Member(JsonLoads(text).v, KeyData) = GroupValue(group)

\* C8 as claimed: a call of handle on SparseEncodingModelHandler that returns,
\* returns a list of JSON-encoded records, one for each request and in request
\* order, each with the name, the data type, a shape and the group's vectors.
C8_SparseHandleReturnsRecords ==
    (InHandle /\ pc = "done" /\ handler = "SparseEncodingModelHandler") =>
        /\ ret.kind = "records"
        /\ Len(ret.records) = Len(requests)
        /\ \A i \in 1..Len(ret.records) : IsRecordOf(ret.records[i], outputs[i])

\* C9 as claimed: every record postResult has produced for a group with
\* vectors in it has the vector length as shape, however many vectors the
\* group has, and the group's vectors, unchanged and in order, as data.
C9_ShapeIsVectorLength ==
    (call = "postResult" /\ pc \in {"postResult", "done"}) =>
        \A i \in 1..Len(records) :
            Len(result_list[i]) > 0 =>
                /\ IsRecordOf(records[i], result_list[i])
                /\ Member(JsonLoads(records[i]).v, KeyShape) = PyInt(Len(result_list[i][1]))

\* C10: once the handler is initialized no step changes its process-wide state
\* (model, tokenizer, device, manifest, initialized flag), and a call of handle
\* ends as an earlier call of handle on the same request sequence ended: with
\* the same response, or as well with an exception.
C10_CallsAreIndependent ==
    /\ [][tokenizer # "None" => UNCHANGED self]_vars
    /\ []((observed.set /\ InHandle /\ pc \in {"done", "error"}
           /\ observed.requests = requests)
          => (observed.pc = pc /\ observed.ret = ret))

C10_Witness ==
    /\ observed.set /\ InHandle /\ pc = "done"
    /\ observed.requests = requests
    /\ Len(requests) = 2
    /\ Len(ret.groups[1]) = 2

====
